---------------------------- MODULE Spec2Model ----------------------------
(***************************************************************************)
(* A model of the believe-screener-app client: the data access adapter    *)
(* (services/api), the explore screen with its filter/sort/search         *)
(* pipeline, and the loading logic of the screens.                        *)
(*                                                                         *)
(* Seven specifications share the variables:                              *)
(*   SpecFetch     one invocation after another of the four fetch         *)
(*                 operations against an arbitrary HTTP outcome;          *)
(*   SpecFormat    calls of the formatting helpers on an arbitrary number *)
(*                 and timestamp;                                         *)
(*   SpecPipeline  the explore screen holding an arbitrary fetched token  *)
(*                 list while the user changes query, category and sort   *)
(*                 key and time passes;                                   *)
(*   SpecExplore   the explore screen from mount on, with its requests    *)
(*                 in flight, refresh and timeframe changes;              *)
(*   SpecHome      the home screen from mount on, with its parallel       *)
(*                 statistics and token requests and refresh;             *)
(*   SpecDetail    the token detail screen from mount on, with refresh    *)
(*                 and chart-interval changes;                            *)
(*   SpecLoads     the loads of one of the three screens, every request   *)
(*                 settling sooner or later.                              *)
(***************************************************************************)
EXTENDS Integers, Sequences, FiniteSets, TLC

VARIABLES
    \* ---- data access adapter (one invocation at a time) ----
    apiOp,          \* the fetch operation being invoked, or "none"
    apiPhase,       \* "idle" | "awaiting" | "settled"
    apiResp,        \* the HTTP outcome the invocation met
    apiResult,      \* what the operation's promise settled with
    apiCalls,       \* invocations of a fetch operation so far
    apiHttp,        \* HTTP requests issued so far
    \* ---- explore screen (ExploreScreen's useState cells) ----
    tokens,
    loading,
    refreshing,
    searchQuery,
    selectedTimeFrame,
    selectedFilter,
    selectedSort,
    \* ---- explore screen: derived value and environment ----
    filteredAndSortedTokens,  \* the useMemo value handed to the FlatList
    computedAt,     \* Date.now() as read by the last recomputation
    aliased,        \* the memo value is the very array held in `tokens`
    now,            \* the wall clock, ms
    inflight,       \* token-list requests awaiting their response
    httpRequests,   \* HTTP requests the screen has issued
    userTriggers,   \* user actions that start a load (mount, refresh, timeframe)
    lastOutcome,    \* how the load settled last: "none" | "ok" | "failed"
    alerts,         \* Alert.alert calls made so far
    \* ---- formatting helpers (one call at a time) ----
    fmtOp,          \* the helper called last, or "none"
    fmtNum,         \* the number handed to the numeric helpers
    fmtTime,        \* new Date(timestamp).getTime() of the timestamp handed to getTimeAgo
    fmtAddr,        \* the address handed to formatAddress
    fmtOut,         \* what the last call returned
    \* ---- home screen (Home's useState cells) ----
    stats,
    homeTokens,     \* Home's `tokens`
    homeLoading,    \* Home's `loading`
    homeRefreshing, \* Home's `refreshing`
    homeLoads,      \* loadData calls with a request still awaiting its response
    homeRequests,   \* loadData calls so far
    homeAlerts,     \* Alert.alert calls made by the home screen
    statsSetBy,     \* history: the loadData call whose setStats ran last (0: none)
    tokensSetBy,    \* history: the loadData call whose setTokens ran last (0: none)
    \* ---- token detail screen (TokenDetailScreen's useState cells) ----
    detailToken,    \* TokenDetailScreen's `token`
    chartData,
    selectedInterval,
    detailLoading,  \* TokenDetailScreen's `loading`
    detailRefreshing, \* TokenDetailScreen's `refreshing`
    chartLoading,
    detailInflight, \* loadTokenData and loadChartData calls awaiting a response
    detailRequests, \* loadTokenData and loadChartData calls so far
    detailAlerts    \* Alert.alert calls made by the detail screen

apiVars == <<apiOp, apiPhase, apiResp, apiResult, apiCalls, apiHttp>>
criteriaVars == <<searchQuery, selectedFilter, selectedSort>>
memoVars == <<filteredAndSortedTokens, computedAt, aliased>>
netVars == <<loading, refreshing, selectedTimeFrame, inflight, httpRequests,
             userTriggers, lastOutcome, alerts>>
exploreVars == <<tokens, criteriaVars, memoVars, now, netVars>>
fmtVars == <<fmtOp, fmtNum, fmtTime, fmtAddr, fmtOut>>
homeVars == <<stats, homeTokens, homeLoading, homeRefreshing, homeLoads,
              homeRequests, homeAlerts, statsSetBy, tokensSetBy>>
detailVars == <<detailToken, chartData, selectedInterval, detailLoading, detailRefreshing,
                chartLoading, detailInflight, detailRequests, detailAlerts>>
vars == <<apiVars, exploreVars, fmtVars, homeVars, detailVars>>

-----------------------------------------------------------------------------
(* Bounds of the model *)

\* longest token list a response carries
MaxTokens == 2
\* fetch invocations followed in SpecFetch
MaxCalls == 2
\* HTTP requests the explore screen issues in SpecExplore
MaxRequests == 3
\* clock ticks followed in SpecPipeline
MaxTicks == 1
\* longest address handed to formatAddress in SpecFormat
MaxAddressLen == 12
\* loadData calls of the home screen followed in SpecHome
MaxHomeLoads == 3
\* loadTokenData and loadChartData calls of the detail screen followed in
\* SpecDetail
MaxDetailCalls == 3

-----------------------------------------------------------------------------
(* JavaScript numbers, as far as the code uses them.  A value is a number, *)
(* undefined (an absent field) or NaN.                                     *)

JsNum(n) == [k |-> "num", v |-> n]
JsUndefined == [k |-> "undefined", v |-> 0]
JsNaN == [k |-> "nan", v |-> 0]

IsNum(x) == x.k = "num"

\* a - b: NaN unless both are numbers (undefined converts to NaN)
JsSub(a, b) == IF IsNum(a) /\ IsNum(b) THEN JsNum(a.v - b.v) ELSE JsNaN

\* x || 0: 0 for the falsy values undefined, NaN and 0
JsOrZero(x) == IF x.k \in {"undefined", "nan"} THEN JsNum(0) ELSE x

\* a >= n for a number literal n: false when a is undefined or NaN
JsGe(a, n) == IsNum(a) /\ a.v >= n

\* a > n for a number literal n
JsGt(a, n) == IsNum(a) /\ a.v > n

\* a / b > 0.1 under IEEE 754 division: x/0 is +-Infinity, 0/0 and anything
\* with undefined are NaN, and every comparison with NaN is false.  For the
\* integers used here 10a > b decides a/b > 0.1 exactly.
JsRatioAboveTenth(a, b) ==
    IF ~(IsNum(a) /\ IsNum(b)) THEN FALSE
    ELSE IF b.v = 0 THEN a.v > 0
    ELSE IF b.v > 0 THEN 10 * a.v > b.v
    ELSE 10 * a.v < b.v

-----------------------------------------------------------------------------
(* Text: a string is a tuple of one-character strings.                     *)

ToLowerChar(c) ==
    CASE c = "A" -> "a" [] c = "B" -> "b" [] c = "C" -> "c"
      [] c = "D" -> "d" [] c = "E" -> "e" [] OTHER -> c

\* String.prototype.toLowerCase
ToLowerCase(s) == [i \in 1..Len(s) |-> ToLowerChar(s[i])]

\* String.prototype.includes
Includes(s, q) ==
    \E i \in 0..(Len(s) - Len(q)) : SubSeq(s, i + 1, i + Len(q)) = q

-----------------------------------------------------------------------------
(* Tokens (services/api Token, the fields the screens read).               *)

HourMs == 60 * 60 * 1000
DayMs == 24 * 60 * 60 * 1000
\* the clock when the screen is first shown
Now0 == 48 * HourMs

Stats(n) == [present |-> TRUE, numTraders |-> n]
NoStats == [present |-> FALSE, numTraders |-> JsUndefined]

Tok(id, symbol, name, volume24h, mcap, usdPrice, stats24h, holderCount, createdAt) ==
    [id |-> id, symbol |-> symbol, name |-> name, volume24h |-> volume24h,
     mcap |-> mcap, usdPrice |-> usdPrice, stats24h |-> stats24h,
     holderCount |-> holderCount, createdAt |-> createdAt]

\* The tokens the upstream API serves in this model: a zero and an absent
\* market cap, absent volume/price/holders/stats, the hot, trending,
\* graduated and new thresholds from both sides, equal sort keys, and names
\* that differ in case.
Catalogue ==
    { Tok(1, <<"A", "b">>, <<"c", "a", "t">>, JsNum(5), JsNum(0), JsNum(3),
          Stats(JsNum(100)), JsNum(7), Now0 - DayMs),
      Tok(2, <<"b", "c">>, <<"D", "a", "b">>, JsUndefined, JsNum(69001), JsUndefined,
          NoStats, JsUndefined, Now0 - HourMs),
      Tok(3, <<"c", "d">>, <<"x">>, JsNum(6900), JsNum(69000), JsNum(1),
          Stats(JsNum(101)), JsNum(3), Now0 - DayMs + HourMs),
      Tok(4, <<"E">>, <<"e", "a">>, JsNum(6900), JsUndefined, JsNum(1),
          Stats(JsNum(99)), JsNum(0), Now0 - DayMs - HourMs),
      Tok(5, <<"d">>, <<"B", "E">>, JsNum(11), JsNum(100), JsNum(0),
          Stats(JsUndefined), JsNum(3), Now0) }

\* token lists with unique ids, as one response carries them
RECURSIVE ListsOfLen(_)
ListsOfLen(n) ==
    IF n = 0 THEN {<<>>}
    ELSE { Append(l, t) : l \in ListsOfLen(n - 1), t \in Catalogue }

Distinct(l) == \A i, j \in 1..Len(l) : i # j => l[i].id # l[j].id

TokenLists == UNION { { l \in ListsOfLen(n) : Distinct(l) } : n \in 0..MaxTokens }

-----------------------------------------------------------------------------
(* Parsed JSON bodies, as far as the adapter probes them.                  *)

JNull == [t |-> "null"]
JUndefined == [t |-> "undefined"]
JString == [t |-> "string"]
JArray(items) == [t |-> "array", items |-> items]
JToken(tok) == [t |-> "token", tok |-> tok]
\* an object, by its `pools` and `tokens` properties (JUndefined: absent)
JObject(pools, toks) == [t |-> "object", pools |-> pools, tokens |-> toks]
\* a body that is not JSON: response.json() rejects
JInvalid == [t |-> "invalid"]

\* Array.isArray(x)
IsArray(x) == x.t = "array"
\* truthiness of a probed property (arrays and non-empty strings are truthy)
Truthy(x) == x.t \notin {"undefined", "null"}
\* data.pools on a non-null value: undefined unless an object carries it
Pools(data) == IF data.t = "object" THEN data.pools ELSE JUndefined

\* data?.pools: the optional chain yields undefined on null
OptPools(data) == IF data = JNull THEN JUndefined ELSE Pools(data)

Bodies ==
    {JNull, JString, JInvalid,
     JObject(JUndefined, JUndefined), JObject(JString, JUndefined),
     JObject(JNull, JUndefined)}
    \cup { JArray(l) : l \in TokenLists }
    \cup { JObject(JArray(l), JUndefined) : l \in TokenLists }
    \cup { JObject(JUndefined, JArray(l)) : l \in TokenLists }

-----------------------------------------------------------------------------
(* HTTP outcomes of one fetch() call.                                       *)

Statuses == {199, 200, 299, 300, 404, 500}

RejectResp == [kind |-> "reject", status |-> 0, body |-> JUndefined]
HttpResp(status, body) == [kind |-> "response", status |-> status, body |-> body]
NoResp == [kind |-> "none", status |-> 0, body |-> JUndefined]

Responses == {RejectResp} \cup { HttpResp(s, b) : s \in Statuses, b \in Bodies }

\* Response.ok
ResponseOk(resp) == resp.status >= 200 /\ resp.status <= 299

\* what an operation's promise settles with
Threw == [threw |-> TRUE, value |-> JUndefined]
Returned(v) == [threw |-> FALSE, value |-> v]
NoResult == [threw |-> FALSE, value |-> [t |-> "pending"]]

\* fetch() resolved with a success status and response.json() parsed the body
Parsed(resp) == resp.kind = "response" /\ ResponseOk(resp) /\ resp.body # JInvalid

-----------------------------------------------------------------------------
(* The four fetch operations: the settled value for an HTTP outcome.  Each *)
(* catch block logs and rethrows, so whatever throws inside rejects.       *)

FetchLaunchpadStats(resp) ==
    IF resp.kind = "reject" THEN Threw
    ELSE IF ~ResponseOk(resp) THEN Threw
    ELSE IF resp.body = JInvalid THEN Threw
    ELSE Returned(resp.body)

FetchBelieveTokens(resp) ==
    IF resp.kind = "reject" THEN Threw
    ELSE IF ~ResponseOk(resp) THEN Threw
    ELSE IF resp.body = JInvalid THEN Threw
    ELSE LET data == resp.body IN
         \* Array.isArray(data?.pools): the optional chain tolerates null
         IF IsArray(OptPools(data))
         THEN Returned(JObject(JUndefined, Pools(data)))
         \* data.pools on null: a TypeError, rethrown by the catch
         ELSE IF data = JNull THEN Threw
         ELSE IF Truthy(Pools(data)) /\ IsArray(Pools(data)) THEN Returned(data)
         ELSE Returned(JObject(JUndefined, JArray(<<>>)))

\* fetchTokenDetail returning the last record of `pools`
FetchTokenDetail_LastElement(resp) ==
    IF resp.kind = "reject" THEN Threw
    ELSE IF ~ResponseOk(resp) THEN Threw
    ELSE IF resp.body = JInvalid THEN Threw
    ELSE LET data == resp.body IN
         IF data = JNull THEN Threw
         ELSE IF ~Truthy(Pools(data)) THEN Returned(JNull)
         ELSE IF IsArray(Pools(data))
              THEN IF Len(Pools(data).items) > 0
                   THEN Returned(JToken(Pools(data).items[Len(Pools(data).items)]))
                   ELSE Returned(JNull)
              ELSE Returned(JString)

FetchTokenDetail(resp) ==
    IF resp.kind = "reject" THEN Threw
    ELSE IF ~ResponseOk(resp) THEN Threw
    ELSE IF resp.body = JInvalid THEN Threw
    ELSE LET data == resp.body IN
         IF data = JNull THEN Threw
         ELSE IF ~Truthy(Pools(data)) THEN Returned(JNull)
         ELSE IF IsArray(Pools(data))
              THEN IF Len(Pools(data).items) > 0
                   THEN Returned(JToken(Pools(data).items[1]))
                   ELSE Returned(JNull)
              \* a non-empty string: its first character
              ELSE Returned(JString)

\* fetchTokenChart without its `if (!response.ok)` check
FetchTokenChart_NoStatusCheck(resp) ==
    IF resp.kind = "reject" THEN Threw
    ELSE IF resp.body = JInvalid THEN Threw
    ELSE Returned(resp.body)

FetchTokenChart(resp) ==
    IF resp.kind = "reject" THEN Threw
    ELSE IF ~ResponseOk(resp) THEN Threw
    ELSE IF resp.body = JInvalid THEN Threw
    ELSE Returned(resp.body)

FetchOps == {"fetchLaunchpadStats", "fetchBelieveTokens", "fetchTokenDetail",
             "fetchTokenChart"}

OpResult(op, resp) ==
    CASE op = "fetchLaunchpadStats" -> FetchLaunchpadStats(resp)
      [] op = "fetchBelieveTokens" -> FetchBelieveTokens(resp)
      [] op = "fetchTokenDetail" -> FetchTokenDetail(resp)
      [] op = "fetchTokenChart" -> FetchTokenChart(resp)

-----------------------------------------------------------------------------
(* The formatting helpers of services/api.  A finite number handed to them *)
(* is a decimal m * 10^e; undefined and NaN are the values above.          *)

JsDec(m, e) == [k |-> "dec", m |-> m, e |-> e]

Digits == <<"0", "1", "2", "3", "4", "5", "6", "7", "8", "9">>

\* the decimal digits of a natural number
RECURSIVE NatToString(_)
NatToString(n) ==
    IF n < 10 THEN <<Digits[n + 1]>>
    ELSE Append(NatToString(n \div 10), Digits[(n % 10) + 1])

\* a template literal's rendering of an integer
IntToString(n) == IF n < 0 THEN <<"-">> \o NatToString(-n) ELSE NatToString(n)

RECURSIVE Pow10(_)
Pow10(n) == IF n = 0 THEN 1 ELSE 10 * Pow10(n - 1)

\* x >= 10^p for p >= 0: false for undefined and NaN
JsGePow10(x, p) ==
    /\ x.k = "dec"
    /\ x.m > 0
    /\ LET d == p - x.e IN
       IF d <= 0 THEN TRUE
       ELSE IF d > 9 THEN FALSE
       ELSE x.m >= Pow10(d)

\* x >= 0
JsGeZero(x) == x.k = "dec" /\ x.m >= 0

\* x / 10^p
JsDivPow10(x, p) == IF x.k = "dec" THEN JsDec(x.m, x.e - p) ELSE JsNaN

\* !x: true for undefined, NaN and 0
JsNot(x) == x.k # "dec" \/ x.m = 0

\* The integers n for which n / 100 is as close as possible to mag * 10^e,
\* for e < 0.  The code rounds the double nearest to the decimal: a decimal
\* tie that is itself a double (an odd multiple of 1/8) goes to the larger n,
\* and on any other decimal tie the double lies on one side or the other.
Hundredths(mag, e) ==
    LET s == e + 2 IN
    IF s >= 0 THEN {mag * Pow10(s)}
    ELSE IF -s > 9 THEN {0}
    ELSE LET D == Pow10(-s)
             q == mag \div D
             r == mag % D
         IN IF 2 * r < D THEN {q}
            ELSE IF 2 * r > D THEN {q + 1}
            ELSE IF (2 * q + 1) % 25 = 0 THEN {q + 1}
            ELSE {q, q + 1}

Zeros(n) == [i \in 1..n |-> "0"]

\* Number.prototype.toFixed(2) on a number below 10^21 or NaN: the texts it
\* can yield.  The sign is taken from the number before it is rounded.
ToFixed(x) ==
    IF x.k # "dec" THEN {<<"N", "a", "N">>}
    ELSE LET mag == IF x.m < 0 THEN -x.m ELSE x.m
             sign == IF x.m < 0 THEN <<"-">> ELSE <<>>
         IN IF x.e >= 0
            THEN { sign \o NatToString(mag)
                        \o (IF mag = 0 THEN <<>> ELSE Zeros(x.e))
                        \o <<".", "0", "0">> }
            ELSE { sign \o NatToString(n \div 100) \o <<".">>
                        \o <<Digits[((n % 100) \div 10) + 1], Digits[(n % 10) + 1]>> :
                   n \in Hundredths(mag, x.e) }

\* a call that ended in a TypeError (a method read on undefined)
TypeError == <<"TypeError">>

\* x > 10^p for p >= 0
JsGtPow10(x, p) ==
    /\ x.k = "dec"
    /\ x.m > 0
    /\ LET d == p - x.e IN
       IF d < 0 THEN TRUE
       ELSE IF d > 9 THEN FALSE
       ELSE x.m > Pow10(d)

\* formatNumber with > in place of >= at its thresholds
FormatNumber_StrictThresholds(num) ==
    IF num = JsUndefined THEN {TypeError}
    ELSE IF JsGtPow10(num, 9) THEN { t \o <<"B">> : t \in ToFixed(JsDivPow10(num, 9)) }
    ELSE IF JsGtPow10(num, 6) THEN { t \o <<"M">> : t \in ToFixed(JsDivPow10(num, 6)) }
    ELSE IF JsGtPow10(num, 3) THEN { t \o <<"K">> : t \in ToFixed(JsDivPow10(num, 3)) }
    ELSE ToFixed(num)

FormatNumber(num) ==
    \* undefined fails every comparison and undefined.toFixed throws
    IF num = JsUndefined THEN {TypeError}
    ELSE IF JsGePow10(num, 9) THEN { t \o <<"B">> : t \in ToFixed(JsDivPow10(num, 9)) }
    ELSE IF JsGePow10(num, 6) THEN { t \o <<"M">> : t \in ToFixed(JsDivPow10(num, 6)) }
    ELSE IF JsGePow10(num, 3) THEN { t \o <<"K">> : t \in ToFixed(JsDivPow10(num, 3)) }
    ELSE ToFixed(num)

\* formatCurrencyMillions without its `if (!amount)` guard
FormatCurrencyMillions_NoFalsyGuard(amount) ==
    IF amount = JsUndefined THEN {TypeError}
    ELSE IF JsGePow10(amount, 9)
         THEN { <<"$">> \o t \o <<"B">> : t \in ToFixed(JsDivPow10(amount, 9)) }
    ELSE IF JsGePow10(amount, 6)
         THEN { <<"$">> \o t \o <<"M">> : t \in ToFixed(JsDivPow10(amount, 6)) }
    ELSE IF JsGePow10(amount, 3)
         THEN { <<"$">> \o t \o <<"K">> : t \in ToFixed(JsDivPow10(amount, 3)) }
    ELSE { <<"$">> \o t : t \in ToFixed(amount) }

FormatCurrencyMillions(amount) ==
    IF JsNot(amount) THEN {<<"$", "0", ".", "0", "0">>}
    ELSE IF JsGePow10(amount, 9)
         THEN { <<"$">> \o t \o <<"B">> : t \in ToFixed(JsDivPow10(amount, 9)) }
    ELSE IF JsGePow10(amount, 6)
         THEN { <<"$">> \o t \o <<"M">> : t \in ToFixed(JsDivPow10(amount, 6)) }
    ELSE IF JsGePow10(amount, 3)
         THEN { <<"$">> \o t \o <<"K">> : t \in ToFixed(JsDivPow10(amount, 3)) }
    ELSE { <<"$">> \o t : t \in ToFixed(amount) }

\* formatPercentage with `percentage > 0` for its flag
FormatPercentage_StrictlyPositive(percentage) ==
    IF percentage = JsUndefined THEN {TypeError}
    ELSE LET isPositive == percentage.k = "dec" /\ percentage.m > 0
             sign == IF isPositive THEN <<"+">> ELSE <<>>
         IN { [text |-> sign \o t \o <<"%">>, isPositive |-> isPositive] :
              t \in ToFixed(percentage) }

FormatPercentage(percentage) ==
    IF percentage = JsUndefined THEN {TypeError}
    ELSE LET isPositive == JsGeZero(percentage)
             sign == IF isPositive THEN <<"+">> ELSE <<>>
         IN { [text |-> sign \o t \o <<"%">>, isPositive |-> isPositive] :
              t \in ToFixed(percentage) }

SecondMs == 1000

\* getTimeAgo with Math.round in place of Math.floor
GetTimeAgo_Rounding(past, nowMs) ==
    IF ~IsNum(past) THEN <<"N", "a", "N", "d", " ", "a", "g", "o">>
    ELSE LET diffInSeconds == (nowMs - past.v + 500) \div SecondMs
             diffInMinutes == (diffInSeconds + 30) \div 60
             diffInHours == (diffInMinutes + 30) \div 60
             diffInDays == (diffInHours + 12) \div 24
         IN IF diffInSeconds < 60
            THEN IntToString(diffInSeconds) \o <<"s", " ", "a", "g", "o">>
            ELSE IF diffInMinutes < 60
            THEN IntToString(diffInMinutes) \o <<"m", " ", "a", "g", "o">>
            ELSE IF diffInHours < 24
            THEN IntToString(diffInHours) \o <<"h", " ", "a", "g", "o">>
            ELSE IntToString(diffInDays) \o <<"d", " ", "a", "g", "o">>

\* getTimeAgo, given new Date(timestamp).getTime() (NaN for a timestamp that
\* does not parse) and the clock.  Math.floor is \div; with NaN every
\* comparison fails and the last branch prints it.
GetTimeAgo(past, nowMs) ==
    IF ~IsNum(past) THEN <<"N", "a", "N", "d", " ", "a", "g", "o">>
    ELSE LET diffInSeconds == (nowMs - past.v) \div SecondMs
             diffInMinutes == diffInSeconds \div 60
             diffInHours == diffInMinutes \div 60
             diffInDays == diffInHours \div 24
         IN IF diffInSeconds < 60
            THEN IntToString(diffInSeconds) \o <<"s", " ", "a", "g", "o">>
            ELSE IF diffInMinutes < 60
            THEN IntToString(diffInMinutes) \o <<"m", " ", "a", "g", "o">>
            ELSE IF diffInHours < 24
            THEN IntToString(diffInHours) \o <<"h", " ", "a", "g", "o">>
            ELSE IntToString(diffInDays) \o <<"d", " ", "a", "g", "o">>

\* a string value, s its characters
JsStr(s) == [k |-> "str", s |-> s]

\* formatAddress keeping only addresses shorter than 10 characters whole
FormatAddress_ShortenFromTen(address) ==
    IF address = JsUndefined \/ address.s = <<>> THEN <<>>
    ELSE IF Len(address.s) < 10 THEN address.s
    ELSE SubSeq(address.s, 1, 4) \o <<".", ".", ".">>
             \o SubSeq(address.s, Len(address.s) - 3, Len(address.s))

\* formatAddress: `!address` holds for undefined and for the empty string;
\* slice(0, 4) and slice(-4) are the first and the last four characters
FormatAddress(address) ==
    IF address = JsUndefined \/ address.s = <<>> THEN <<>>
    ELSE IF Len(address.s) <= 10 THEN address.s
    ELSE SubSeq(address.s, 1, 4) \o <<".", ".", ".">>
             \o SubSeq(address.s, Len(address.s) - 3, Len(address.s))

FormatOps == {"formatNumber", "formatCurrencyMillions", "formatPercentage",
              "getTimeAgo", "formatAddress"}

\* no helper has been called
FormatIdle ==
    /\ fmtOp = "none"
    /\ fmtNum = JsDec(0, 0)
    /\ fmtTime = JsNum(Now0)
    /\ fmtAddr = JsStr(<<>>)
    /\ fmtOut = <<>>

\* the home screen before it is shown: the useState initial values
HomeUnmounted ==
    /\ stats = JNull
    /\ homeTokens = <<>>
    /\ homeLoading = TRUE
    /\ homeRefreshing = FALSE
    /\ homeLoads = {}
    /\ homeRequests = 0
    /\ homeAlerts = 0
    /\ statsSetBy = 0
    /\ tokensSetBy = 0

\* the token detail screen before it is shown: the useState initial values
DetailUnmounted ==
    /\ detailToken = JNull
    /\ chartData = JNull
    /\ selectedInterval = "4_HOUR"
    /\ detailLoading = TRUE
    /\ detailRefreshing = FALSE
    /\ chartLoading = FALSE
    /\ detailInflight = {}
    /\ detailRequests = 0
    /\ detailAlerts = <<>>

-----------------------------------------------------------------------------
(* The explore screen's filter/sort/search pipeline (the useMemo callback  *)
(* filteredAndSortedTokens).                                                *)

FilterValues == {"all", "hot", "trending", "graduated", "new"}
SortValues == {"market_cap", "volume", "price", "traders", "holders", "newest"}
TimeFrames == {"5m", "1h", "6h", "24h"}
\* what the user types into the search box
Queries == {<<>>, <<"a">>, <<"B", "e">>}

\* token.baseAsset.stats24h?.numTraders
NumTraders(token) ==
    IF token.stats24h.present THEN token.stats24h.numTraders ELSE JsUndefined

\* TokenListItem's isHotToken, which shows the hot badge
IsHotToken(token) == JsGt(JsOrZero(NumTraders(token)), 100)

\* the search predicate matching the symbol only
SearchMatches_SymbolOnly(token, q) ==
    LET query == ToLowerCase(q) IN
    Includes(ToLowerCase(token.symbol), query)

\* the search stage's predicate, for a non-empty query
SearchMatches(token, q) ==
    LET query == ToLowerCase(q) IN
    \/ Includes(ToLowerCase(token.symbol), query)
    \/ Includes(ToLowerCase(token.name), query)

\* the category switch with `hot` as numTraders > 100
CategoryKeeps_HotAbove100(token, f, t) ==
    CASE f = "hot" -> JsGt(NumTraders(token), 100)
      [] f = "trending" -> JsRatioAboveTenth(token.volume24h, token.mcap)
      [] f = "graduated" -> JsGt(token.mcap, 69000)
      [] f = "new" -> t - token.createdAt < DayMs
      [] OTHER -> TRUE

\* the category switch with `graduated` as mcap >= 69000
CategoryKeeps_GraduatedAtThreshold(token, f, t) ==
    CASE f = "hot" -> JsGe(NumTraders(token), 100)
      [] f = "trending" -> JsRatioAboveTenth(token.volume24h, token.mcap)
      [] f = "graduated" -> JsGe(token.mcap, 69000)
      [] f = "new" -> t - token.createdAt < DayMs
      [] OTHER -> TRUE

\* the category switch with `new` as an age of at most 24 hours
CategoryKeeps_NewAtThreshold(token, f, t) ==
    CASE f = "hot" -> JsGe(NumTraders(token), 100)
      [] f = "trending" -> JsRatioAboveTenth(token.volume24h, token.mcap)
      [] f = "graduated" -> JsGt(token.mcap, 69000)
      [] f = "new" -> t - token.createdAt <= DayMs
      [] OTHER -> TRUE

\* the category stage's switch, evaluated at clock t
CategoryKeeps(token, f, t) ==
    CASE f = "hot" -> JsGe(NumTraders(token), 100)
      [] f = "trending" -> JsRatioAboveTenth(token.volume24h, token.mcap)
      [] f = "graduated" -> JsGt(token.mcap, 69000)
      [] f = "new" -> t - token.createdAt < DayMs
      [] OTHER -> TRUE

\* the comparator handed to Array.prototype.sort
SortCompare(s, a, b) ==
    CASE s = "volume" -> JsSub(b.volume24h, a.volume24h)
      [] s = "price" -> JsSub(b.usdPrice, a.usdPrice)
      [] s = "traders" -> JsSub(JsOrZero(NumTraders(b)), JsOrZero(NumTraders(a)))
      [] s = "holders" -> JsSub(JsOrZero(b.holderCount), JsOrZero(a.holderCount))
      [] s = "newest" -> JsNum(b.createdAt - a.createdAt)
      [] OTHER -> JsSub(b.mcap, a.mcap)

\* how sort reads the comparator's value: NaN counts as +0
CompareSign(s, a, b) ==
    LET c == SortCompare(s, a, b) IN
    IF ~IsNum(c) THEN 0 ELSE IF c.v < 0 THEN -1 ELSE IF c.v > 0 THEN 1 ELSE 0

\* ECMAScript's "consistent comparator" over the elements of a list
ConsistentComparator(list, s) ==
    \A i, j, k \in 1..Len(list) :
        LET ij == CompareSign(s, list[i], list[j])
            jk == CompareSign(s, list[j], list[k])
            ik == CompareSign(s, list[i], list[k])
        IN /\ (ij = 0 /\ jk = 0) => ik = 0
           /\ (ij < 0 /\ jk < 0) => ik < 0
           /\ (ij > 0 /\ jk > 0) => ik > 0

\* x put into a sorted list behind every element that does not sort after it
RECURSIVE InsertSorted(_, _, _)
InsertSorted(sorted, x, s) ==
    IF sorted = <<>> THEN <<x>>
    ELSE LET last == sorted[Len(sorted)] IN
         IF CompareSign(s, last, x) > 0
         THEN Append(InsertSorted(SubSeq(sorted, 1, Len(sorted) - 1), x, s), last)
         ELSE Append(sorted, x)

RECURSIVE StableSort(_, _)
StableSort(list, s) ==
    IF list = <<>> THEN <<>>
    ELSE InsertSorted(StableSort(SubSeq(list, 1, Len(list) - 1), s),
                      list[Len(list)], s)

Reorderings(list) ==
    { [i \in 1..Len(list) |-> list[p[i]]] : p \in Permutations(1..Len(list)) }

\* Array.prototype.sort: stable, and the one sorted order when the comparator
\* is consistent; otherwise the order is implementation-defined.
SortOutcomes(list, s) ==
    IF ConsistentComparator(list, s) THEN {StableSort(list, s)}
    ELSE Reorderings(list)

\* what Array.prototype.filter returns: always a new array
NewArray(items) == [items |-> items, shared |-> FALSE]

\* `filtered = tokens` in place of the spread: no copy is made
SpreadCopy_Alias(list) == [items |-> list, shared |-> TRUE]

\* [...tokens]: a new array with the same elements.  `shared` says whether
\* the array is the one held in the `tokens` state cell.
SpreadCopy(list) == [items |-> list, shared |-> FALSE]

\* the callback with the category switch run for every category, `all`
\* falling through to a default that keeps nothing
FilteredAndSortedTokens_AllFiltered(toks, q, f, s, t) ==
    LET copied == SpreadCopy(toks)
        searched ==
            IF q # <<>>
            THEN NewArray(SelectSeq(copied.items, LAMBDA token : SearchMatches(token, q)))
            ELSE copied
        filtered ==
            NewArray(SelectSeq(searched.items,
                               LAMBDA token : f # "all" /\ CategoryKeeps(token, f, t)))
    IN { [out |-> o,
          held |-> IF filtered.shared THEN o ELSE toks,
          shared |-> filtered.shared] : o \in SortOutcomes(filtered.items, s) }

\* The callback's possible results: the list displayed (out), what the held
\* array contains afterwards (held: sort works in place), and whether the
\* displayed array is the held one (shared).
FilteredAndSortedTokens(toks, q, f, s, t) ==
    LET copied == SpreadCopy(toks)
        searched ==
            IF q # <<>>
            THEN NewArray(SelectSeq(copied.items, LAMBDA token : SearchMatches(token, q)))
            ELSE copied
        filtered ==
            IF f # "all"
            THEN NewArray(SelectSeq(searched.items,
                                    LAMBDA token : CategoryKeeps(token, f, t)))
            ELSE searched
    IN { [out |-> o,
          held |-> IF filtered.shared THEN o ELSE toks,
          shared |-> filtered.shared] : o \in SortOutcomes(filtered.items, s) }

\* the callback fed its own previous output instead of the held list
Recompute_Cumulative(toks, q, f, s) ==
    \E r \in FilteredAndSortedTokens(
                IF toks = tokens THEN filteredAndSortedTokens ELSE toks,
                q, f, s, now) :
        /\ filteredAndSortedTokens' = r.out
        /\ tokens' = toks
        /\ aliased' = r.shared
        /\ computedAt' = now

\* the callback reading the clock of the first render in place of Date.now()
Recompute_ClockAtMount(toks, q, f, s) ==
    \E r \in FilteredAndSortedTokens(toks, q, f, s, Now0) :
        /\ filteredAndSortedTokens' = r.out
        /\ tokens' = r.held
        /\ aliased' = r.shared
        /\ computedAt' = now

\* a render whose memo dependencies changed: the callback runs
Recompute(toks, q, f, s) ==
    \E r \in FilteredAndSortedTokens(toks, q, f, s, now) :
        /\ filteredAndSortedTokens' = r.out
        /\ tokens' = r.held
        /\ aliased' = r.shared
        /\ computedAt' = now

-----------------------------------------------------------------------------
(* The explore screen's criteria handlers (state setters wired to the      *)
(* search box and the filter sheet) and the passing of time.                *)

\* the screen shows only a spinner while loading with nothing to show
ControlsShown == ~(loading /\ Len(tokens) = 0)

SetSearchQuery(q) ==
    /\ ControlsShown
    /\ q # searchQuery
    /\ searchQuery' = q
    /\ Recompute(tokens, q, selectedFilter, selectedSort)
    /\ UNCHANGED <<selectedFilter, selectedSort, now, netVars, apiVars, fmtVars, homeVars, detailVars>>

SetSelectedFilter(f) ==
    /\ ControlsShown
    /\ f # selectedFilter
    /\ selectedFilter' = f
    /\ Recompute(tokens, searchQuery, f, selectedSort)
    /\ UNCHANGED <<searchQuery, selectedSort, now, netVars, apiVars, fmtVars, homeVars, detailVars>>

SetSelectedSort(s) ==
    /\ ControlsShown
    /\ s # selectedSort
    /\ selectedSort' = s
    /\ Recompute(tokens, searchQuery, selectedFilter, s)
    /\ UNCHANGED <<searchQuery, selectedFilter, now, netVars, apiVars, fmtVars, homeVars, detailVars>>

\* time passes; no state cell changes, so nothing is recomputed
Tick ==
    /\ now < Now0 + MaxTicks * HourMs
    /\ now' = now + HourMs
    /\ UNCHANGED <<tokens, criteriaVars, memoVars, netVars, apiVars, fmtVars, homeVars, detailVars>>

ApiIdle ==
    /\ apiOp = "none"
    /\ apiPhase = "idle"
    /\ apiResp = NoResp
    /\ apiResult = NoResult
    /\ apiCalls = 0
    /\ apiHttp = 0

\* the screen after a load brought an arbitrary token list, criteria at
\* their defaults
InitPipeline ==
    /\ ApiIdle
    /\ FormatIdle
    /\ HomeUnmounted
    /\ DetailUnmounted
    /\ searchQuery = <<>>
    /\ selectedFilter = "all"
    /\ selectedSort = "market_cap"
    /\ now = Now0
    /\ computedAt = Now0
    /\ \E l \in TokenLists :
         \E r \in FilteredAndSortedTokens(l, <<>>, "all", "market_cap", Now0) :
            /\ tokens = r.held
            /\ filteredAndSortedTokens = r.out
            /\ aliased = r.shared
    /\ loading = FALSE
    /\ refreshing = FALSE
    /\ selectedTimeFrame = "24h"
    /\ inflight = {}
    /\ httpRequests = 1
    /\ userTriggers = 1
    /\ lastOutcome = "ok"
    /\ alerts = 0

NextPipeline ==
    \/ \E q \in Queries : SetSearchQuery(q)
    \/ \E f \in FilterValues : SetSelectedFilter(f)
    \/ \E s \in SortValues : SetSelectedSort(s)
    \/ Tick

SpecPipeline == InitPipeline /\ [][NextPipeline]_vars

-----------------------------------------------------------------------------
(* The explore screen's loading logic: loadTokens, onRefresh,               *)
(* handleTimeFrameChange, and the mount effect.                             *)

\* what the upstream serves per timeframe in SpecExplore
ServerPools(tf) ==
    LET byId(n) == CHOOSE t \in Catalogue : t.id = n IN
    CASE tf = "5m" -> <<>>
      [] tf = "1h" -> <<byId(1), byId(2)>>
      [] tf = "6h" -> <<byId(3)>>
      [] tf = "24h" -> <<byId(5), byId(4)>>

\* the outcomes a token-list request for tf can meet
ExploreResponses(tf) ==
    { RejectResp,
      HttpResp(500, JObject(JUndefined, JUndefined)),
      HttpResp(200, JNull),
      HttpResp(200, JObject(JArray(ServerPools(tf)), JUndefined)),
      HttpResp(200, JObject(JUndefined, JArray(ServerPools(tf)))) }

Request(id, tf, refresh) == [id |-> id, timeFrame |-> tf, refresh |-> refresh]

\* loadTokens up to its await: setLoading(true), then fetchBelieveTokens
\* issues its one fetch()
LoadTokens(tf, refresh) ==
    /\ loading' = TRUE
    /\ httpRequests' = httpRequests + 1
    /\ inflight' = inflight \cup {Request(httpRequests + 1, tf, refresh)}

\* pull-to-refresh; the control does not fire again while it is refreshing
OnRefresh ==
    /\ ControlsShown
    /\ ~refreshing
    /\ httpRequests < MaxRequests
    /\ refreshing' = TRUE
    /\ LoadTokens(selectedTimeFrame, TRUE)
    /\ userTriggers' = userTriggers + 1
    /\ UNCHANGED <<tokens, criteriaVars, memoVars, now, selectedTimeFrame,
                   lastOutcome, alerts, apiVars, fmtVars, homeVars, detailVars>>

HandleTimeFrameChange(tf) ==
    /\ ControlsShown
    /\ httpRequests < MaxRequests
    /\ selectedTimeFrame' = tf
    /\ LoadTokens(tf, FALSE)
    /\ userTriggers' = userTriggers + 1
    /\ UNCHANGED <<tokens, criteriaVars, memoVars, now, refreshing,
                   lastOutcome, alerts, apiVars, fmtVars, homeVars, detailVars>>

\* a try block that drops the response of a timeframe no longer selected
LoadTokensThen_DropSuperseded(r, value) ==
    /\ IF r.timeFrame = selectedTimeFrame
       THEN Recompute(value.tokens.items, searchQuery, selectedFilter, selectedSort)
       ELSE UNCHANGED <<tokens, memoVars>>
    /\ lastOutcome' = "ok"
    /\ inflight' = inflight \ {r}
    /\ UNCHANGED <<httpRequests, alerts>>

\* the try block after the await: setTokens(tokensResponse.tokens)
LoadTokensThen(r, value) ==
    /\ Recompute(value.tokens.items, searchQuery, selectedFilter, selectedSort)
    /\ lastOutcome' = "ok"
    /\ inflight' = inflight \ {r}
    /\ UNCHANGED <<httpRequests, alerts>>

\* a catch block that starts the request again
LoadTokensCatch_Retry(r) ==
    /\ lastOutcome' = "failed"
    /\ IF httpRequests < MaxRequests
       THEN /\ httpRequests' = httpRequests + 1
            /\ inflight' = (inflight \ {r})
                               \cup {Request(httpRequests + 1, r.timeFrame, r.refresh)}
       ELSE /\ httpRequests' = httpRequests
            /\ inflight' = inflight \ {r}
    /\ UNCHANGED <<tokens, memoVars, alerts>>

\* the catch block: console.error only
LoadTokensCatch(r) ==
    /\ lastOutcome' = "failed"
    /\ inflight' = inflight \ {r}
    /\ UNCHANGED <<tokens, memoVars, httpRequests, alerts>>

\* a request's response arrives: the rest of loadTokens runs, and behind it
\* the rest of onRefresh when the load was a refresh
LoadTokensSettles(r, resp) ==
    /\ r \in inflight
    /\ LET result == FetchBelieveTokens(resp) IN
       IF result.threw THEN LoadTokensCatch(r) ELSE LoadTokensThen(r, result.value)
    /\ loading' = FALSE
    /\ refreshing' = IF r.refresh THEN FALSE ELSE refreshing
    /\ UNCHANGED <<criteriaVars, now, selectedTimeFrame, userTriggers, apiVars, fmtVars, homeVars, detailVars>>

\* some request in flight meets its outcome
ResponseArrives ==
    \E r \in inflight : \E resp \in ExploreResponses(r.timeFrame) :
        LoadTokensSettles(r, resp)

\* the screen after its first render and mount effect: loadTokens() is under way
InitExplore ==
    /\ ApiIdle
    /\ FormatIdle
    /\ HomeUnmounted
    /\ DetailUnmounted
    /\ tokens = <<>>
    /\ loading = TRUE
    /\ refreshing = FALSE
    /\ searchQuery = <<>>
    /\ selectedTimeFrame = "24h"
    /\ selectedFilter = "all"
    /\ selectedSort = "market_cap"
    /\ filteredAndSortedTokens = <<>>
    /\ computedAt = Now0
    /\ aliased = FALSE
    /\ now = Now0
    /\ inflight = {Request(1, "24h", FALSE)}
    /\ httpRequests = 1
    /\ userTriggers = 1
    /\ lastOutcome = "none"
    /\ alerts = 0

NextExplore ==
    \/ \E q \in Queries : SetSearchQuery(q)
    \/ \E f \in FilterValues : SetSelectedFilter(f)
    \/ \E s \in SortValues : SetSelectedSort(s)
    \/ OnRefresh
    \/ \E tf \in TimeFrames : HandleTimeFrameChange(tf)
    \/ ResponseArrives

SpecExplore == InitExplore /\ [][NextExplore]_vars

\* the explore screen before it is shown
ExploreUnmounted ==
    /\ tokens = <<>>
    /\ loading = TRUE
    /\ refreshing = FALSE
    /\ searchQuery = <<>>
    /\ selectedTimeFrame = "24h"
    /\ selectedFilter = "all"
    /\ selectedSort = "market_cap"
    /\ filteredAndSortedTokens = <<>>
    /\ computedAt = Now0
    /\ aliased = FALSE
    /\ now = Now0
    /\ inflight = {}
    /\ httpRequests = 0
    /\ userTriggers = 0
    /\ lastOutcome = "none"
    /\ alerts = 0

-----------------------------------------------------------------------------
(* The home screen's loading logic: loadData, onRefresh and the mount       *)
(* effect.                                                                   *)

\* a launchpad statistics body: an object with a `launchpads` array
JLaunchpads(items) == [t |-> "launchpads", items |-> items]
LaunchpadStats(name, liquidity) == [launchpad |-> name, liquidity |-> liquidity]
\* a record of that array, held in `stats`
JStats(record) == [t |-> "stats", record |-> record]

\* the outcomes the statistics request of the n-th loadData can meet
HomeStatsResponses(n) ==
    { RejectResp,
      HttpResp(500, JObject(JUndefined, JUndefined)),
      HttpResp(200, JNull),
      HttpResp(200, JObject(JUndefined, JUndefined)),
      HttpResp(200, JLaunchpads(<<LaunchpadStats("Pump", 7)>>)),
      HttpResp(200, JLaunchpads(<<LaunchpadStats("Pump", 7),
                                  LaunchpadStats("Believe", n)>>)) }

\* the outcomes its token request can meet
HomeTokensResponses ==
    { RejectResp,
      HttpResp(404, JNull),
      HttpResp(200, JObject(JUndefined, JUndefined)),
      HttpResp(200, JObject(JArray(ServerPools("1h")), JUndefined)) }

\* launchpads.find(l => l.launchpad === "Believe"): the first such record,
\* or undefined
FindBelieve(items) ==
    LET hits == { i \in 1..Len(items) : items[i].launchpad = "Believe" } IN
    IF hits = {} THEN JUndefined
    ELSE JStats(items[CHOOSE i \in hits : \A j \in hits : i <= j])

\* Promise.all over two promises: rejected with the first rejection,
\* resolved once both are, pending otherwise
PromiseAll(a, b) ==
    IF a.threw \/ b.threw THEN "rejected"
    ELSE IF a = NoResult \/ b = NoResult THEN "pending"
    ELSE "resolved"

\* a loadData call: its two requests and whether its await has resumed
HomeLoad(id, refresh) ==
    [id |-> id, refresh |-> refresh, stats |-> NoResult, tokens |-> NoResult,
     done |-> FALSE]

\* loadData up to its await: both requests are issued
LoadData(refresh) ==
    /\ homeRequests' = homeRequests + 1
    /\ homeLoads' = homeLoads \cup {HomeLoad(homeRequests + 1, refresh)}

\* pull-to-refresh on the list; the spinner replaces the list while loading,
\* and the control does not fire again while it is refreshing
HomeOnRefresh ==
    /\ ~homeLoading
    /\ ~homeRefreshing
    /\ homeRequests < MaxHomeLoads
    /\ homeRefreshing' = TRUE
    /\ LoadData(TRUE)
    /\ UNCHANGED <<stats, homeTokens, homeLoading, homeAlerts, statsSetBy,
                   tokensSetBy, apiVars, exploreVars, fmtVars, detailVars>>

\* a catch block that keeps what the request that did succeed brought
LoadDataCatch_KeepResolved(l) ==
    /\ homeAlerts' = homeAlerts + 1
    /\ IF l.tokens # NoResult /\ ~l.tokens.threw
       THEN /\ homeTokens' = l.tokens.value.tokens.items
            /\ tokensSetBy' = l.id
       ELSE UNCHANGED <<homeTokens, tokensSetBy>>
    /\ UNCHANGED <<stats, statsSetBy>>

\* the catch block: console.error and Alert.alert
LoadDataCatch(l) ==
    /\ homeAlerts' = homeAlerts + 1
    /\ UNCHANGED <<stats, homeTokens, statsSetBy, tokensSetBy>>

\* the try block after the await; reading `launchpads` of null, or calling
\* find on an absent `launchpads`, throws a TypeError into the catch
LoadDataThen(l) ==
    LET statsResponse == l.stats.value
        tokensResponse == l.tokens.value IN
    IF statsResponse.t # "launchpads" THEN LoadDataCatch(l)
    ELSE LET believeStats == FindBelieve(statsResponse.items) IN
         /\ stats' = IF believeStats = JUndefined THEN JNull ELSE believeStats
         /\ homeTokens' = IF Truthy(tokensResponse.tokens)
                          THEN tokensResponse.tokens.items ELSE <<>>
         /\ statsSetBy' = l.id
         /\ tokensSetBy' = l.id
         /\ UNCHANGED homeAlerts

\* the finally block alone: onRefresh never resets `refreshing`
LoadDataFinally_LoadingOnly(l) ==
    /\ homeLoading' = FALSE
    /\ UNCHANGED homeRefreshing

\* the finally block, and behind it the rest of onRefresh when the load was
\* a refresh
LoadDataFinally(l) ==
    /\ homeLoading' = FALSE
    /\ homeRefreshing' = IF l.refresh THEN FALSE ELSE homeRefreshing

\* a response of call `was` arrived, making it `l`: loadData resumes when
\* Promise.all settles, and a request that settles after that changes nothing
LoadDataSettles(was, l) ==
    /\ was \in homeLoads
    /\ LET all == PromiseAll(l.stats, l.tokens)
           settled == l.stats # NoResult /\ l.tokens # NoResult
           rest == homeLoads \ {was} IN
       IF was.done
       THEN /\ homeLoads' = rest
            /\ UNCHANGED <<stats, homeTokens, homeLoading, homeRefreshing,
                           homeAlerts, statsSetBy, tokensSetBy>>
       ELSE IF all = "pending"
       THEN /\ homeLoads' = rest \cup {l}
            /\ UNCHANGED <<stats, homeTokens, homeLoading, homeRefreshing,
                           homeAlerts, statsSetBy, tokensSetBy>>
       ELSE /\ IF all = "rejected" THEN LoadDataCatch(l) ELSE LoadDataThen(l)
            /\ LoadDataFinally(l)
            /\ homeLoads' = IF settled THEN rest
                            ELSE rest \cup {[l EXCEPT !.done = TRUE]}
    /\ UNCHANGED <<homeRequests, apiVars, exploreVars, fmtVars, detailVars>>

\* the statistics request of some call meets its outcome
HomeStatsArrives ==
    \E l \in homeLoads : \E resp \in HomeStatsResponses(l.id) :
        /\ l.stats = NoResult
        /\ LoadDataSettles(l, [l EXCEPT !.stats = FetchLaunchpadStats(resp)])

\* the token request of some call meets its outcome
HomeTokensArrives ==
    \E l \in homeLoads : \E resp \in HomeTokensResponses :
        /\ l.tokens = NoResult
        /\ LoadDataSettles(l, [l EXCEPT !.tokens = FetchBelieveTokens(resp)])

\* the screen after its first render and mount effect: loadData() is under way
HomeMounted ==
    /\ stats = JNull
    /\ homeTokens = <<>>
    /\ homeLoading = TRUE
    /\ homeRefreshing = FALSE
    /\ homeLoads = {HomeLoad(1, FALSE)}
    /\ homeRequests = 1
    /\ homeAlerts = 0
    /\ statsSetBy = 0
    /\ tokensSetBy = 0

InitHome == ApiIdle /\ FormatIdle /\ ExploreUnmounted /\ HomeMounted /\ DetailUnmounted

NextHome ==
    \/ HomeOnRefresh
    \/ HomeStatsArrives
    \/ HomeTokensArrives

SpecHome == InitHome /\ [][NextHome]_vars

-----------------------------------------------------------------------------
(* The token detail screen's loading logic: loadTokenData, loadChartData,   *)
(* onRefresh and the mount effect.                                           *)

ChartIntervals == {"1_HOUR", "4_HOUR", "12_HOUR"}

IntervalHours(interval) ==
    CASE interval = "1_HOUR" -> 1
      [] interval = "4_HOUR" -> 4
      [] interval = "12_HOUR" -> 12

\* a chart body: an object with a `candles` array
JChart(candles) == [t |-> "chart", candles |-> candles]

\* the candles the upstream serves for an interval lie one interval apart
ServerCandles(interval) == <<[time |-> 0], [time |-> IntervalHours(interval) * 3600]>>

\* the outcomes a chart request for an interval can meet
ChartResponses(interval) ==
    { RejectResp,
      HttpResp(500, JNull),
      HttpResp(200, JNull),
      HttpResp(200, JChart(<<>>)),
      HttpResp(200, JChart(ServerCandles(interval))) }

\* the outcomes a token detail request can meet
DetailResponses ==
    { RejectResp,
      HttpResp(200, JObject(JArray(<<>>), JUndefined)),
      HttpResp(200, JObject(JArray(ServerPools("6h")), JUndefined)) }

LoadTokenDataAlert == "Failed to load token data. Please try again."
LoadChartDataAlert == "Failed to load chart data. Please try again."

\* a loadTokenData or loadChartData call: the interval it asks the chart
\* for, its requests, and whether its await has resumed
DetailCall(id, kind, interval, refresh) ==
    [id |-> id, kind |-> kind, interval |-> interval, refresh |-> refresh,
     detail |-> NoResult, chart |-> NoResult, done |-> FALSE]

\* neither the spinner nor the "Token not found" screen is rendered
DetailContentShown == ~detailLoading /\ detailToken # JNull

\* renderChart renders the interval buttons
IntervalButtonsShown ==
    /\ DetailContentShown
    /\ chartData # JNull
    /\ chartData.candles # <<>>

\* interval buttons that stay enabled while a chart request is under way
IntervalButtonsEnabled_Always == TRUE

\* disabled={chartLoading}
IntervalButtonsEnabled == ~chartLoading

\* loadTokenData up to its await: both requests are issued, the chart request
\* for the selectedInterval of the render the call was made in
LoadTokenData(refresh) ==
    /\ detailRequests' = detailRequests + 1
    /\ detailInflight' = detailInflight \cup
           {DetailCall(detailRequests + 1, "loadTokenData", selectedInterval, refresh)}

\* pull-to-refresh on the content; the control does not fire again while it
\* is refreshing
DetailOnRefresh ==
    /\ DetailContentShown
    /\ ~detailRefreshing
    /\ detailRequests < MaxDetailCalls
    /\ detailRefreshing' = TRUE
    /\ LoadTokenData(TRUE)
    /\ UNCHANGED <<detailToken, chartData, selectedInterval, detailLoading,
                   chartLoading, detailAlerts, apiVars, exploreVars, fmtVars, homeVars>>

\* a press on an interval button: loadChartData up to its await
LoadChartData(interval) ==
    /\ IntervalButtonsShown
    /\ IntervalButtonsEnabled
    /\ detailRequests < MaxDetailCalls
    /\ chartLoading' = TRUE
    /\ detailRequests' = detailRequests + 1
    /\ detailInflight' = detailInflight \cup
           {DetailCall(detailRequests + 1, "loadChartData", interval, FALSE)}
    /\ UNCHANGED <<detailToken, chartData, selectedInterval, detailLoading,
                   detailRefreshing, detailAlerts, apiVars, exploreVars, fmtVars,
                   homeVars>>

\* a response of loadTokenData call `was` arrived, making it `l`: the call
\* resumes when Promise.all settles, and behind it the rest of onRefresh
LoadTokenDataSettles(was, l) ==
    LET all == PromiseAll(l.detail, l.chart)
        settled == l.detail # NoResult /\ l.chart # NoResult
        rest == detailInflight \ {was} IN
    IF was.done
    THEN /\ detailInflight' = rest
         /\ UNCHANGED <<detailToken, chartData, detailLoading, detailRefreshing,
                        detailAlerts>>
    ELSE IF all = "pending"
    THEN /\ detailInflight' = rest \cup {l}
         /\ UNCHANGED <<detailToken, chartData, detailLoading, detailRefreshing,
                        detailAlerts>>
    ELSE /\ IF all = "rejected"
            THEN /\ detailAlerts' = Append(detailAlerts, LoadTokenDataAlert)
                 /\ UNCHANGED <<detailToken, chartData>>
            ELSE /\ detailToken' = l.detail.value
                 /\ chartData' = l.chart.value
                 /\ UNCHANGED detailAlerts
         /\ detailLoading' = FALSE
         /\ detailRefreshing' = IF l.refresh THEN FALSE ELSE detailRefreshing
         /\ detailInflight' = IF settled THEN rest
                              ELSE rest \cup {[l EXCEPT !.done = TRUE]}

\* a catch block that highlights the interval that was asked for
LoadChartDataCatch_SelectsInterval(l) ==
    /\ detailAlerts' = Append(detailAlerts, LoadChartDataAlert)
    /\ selectedInterval' = l.interval
    /\ UNCHANGED chartData

\* loadChartData's catch block: console.error and Alert.alert
LoadChartDataCatch(l) ==
    /\ detailAlerts' = Append(detailAlerts, LoadChartDataAlert)
    /\ UNCHANGED <<chartData, selectedInterval>>

\* the response of loadChartData call l arrived: the rest of the call
LoadChartDataSettles(l, result) ==
    /\ IF result.threw
       THEN LoadChartDataCatch(l)
       ELSE /\ chartData' = result.value
            /\ selectedInterval' = l.interval
            /\ UNCHANGED detailAlerts
    /\ chartLoading' = FALSE
    /\ detailInflight' = detailInflight \ {l}

\* the token detail request of some loadTokenData call meets its outcome
DetailTokenArrives ==
    \E l \in detailInflight : \E resp \in DetailResponses :
        /\ l.kind = "loadTokenData"
        /\ l.detail = NoResult
        /\ LoadTokenDataSettles(l, [l EXCEPT !.detail = FetchTokenDetail(resp)])
        /\ UNCHANGED <<selectedInterval, chartLoading, detailRequests, apiVars,
                       exploreVars, fmtVars, homeVars>>

\* the chart request of some call meets its outcome
DetailChartArrives ==
    \E l \in detailInflight : \E resp \in ChartResponses(l.interval) :
        /\ l.chart = NoResult
        /\ IF l.kind = "loadTokenData"
           THEN /\ LoadTokenDataSettles(l, [l EXCEPT !.chart = FetchTokenChart(resp)])
                /\ UNCHANGED <<selectedInterval, chartLoading>>
           ELSE /\ LoadChartDataSettles(l, FetchTokenChart(resp))
                /\ UNCHANGED <<detailToken, detailLoading, detailRefreshing>>
        /\ UNCHANGED <<detailRequests, apiVars, exploreVars, fmtVars, homeVars>>

\* the screen after its first render and mount effect: loadTokenData() is
\* under way
DetailMounted ==
    /\ detailToken = JNull
    /\ chartData = JNull
    /\ selectedInterval = "4_HOUR"
    /\ detailLoading = TRUE
    /\ detailRefreshing = FALSE
    /\ chartLoading = FALSE
    /\ detailInflight = {DetailCall(1, "loadTokenData", "4_HOUR", FALSE)}
    /\ detailRequests = 1
    /\ detailAlerts = <<>>

InitDetail == ApiIdle /\ FormatIdle /\ ExploreUnmounted /\ HomeUnmounted /\ DetailMounted

NextDetail ==
    \/ DetailOnRefresh
    \/ \E interval \in ChartIntervals : LoadChartData(interval)
    \/ DetailTokenArrives
    \/ DetailChartArrives

SpecDetail == InitDetail /\ [][NextDetail]_vars

-----------------------------------------------------------------------------
(* The loads of the three screens under the assumption that every request   *)
(* that was issued settles: one of the screens is shown, the user refreshes *)
(* and changes timeframe or interval, and responses arrive.                  *)

InitLoads == InitExplore \/ InitHome \/ InitDetail

NextLoads ==
    \/ OnRefresh
    \/ \E tf \in TimeFrames : HandleTimeFrameChange(tf)
    \/ ResponseArrives
    \/ NextHome
    \/ NextDetail

\* a request in flight meets its outcome sooner or later
RequestsSettle ==
    /\ WF_vars(ResponseArrives)
    /\ WF_vars(HomeStatsArrives)
    /\ WF_vars(HomeTokensArrives)
    /\ WF_vars(DetailTokenArrives)
    /\ WF_vars(DetailChartArrives)

SpecLoads == InitLoads /\ [][NextLoads]_vars /\ RequestsSettle

-----------------------------------------------------------------------------
(* The data access adapter on its own: a caller invokes one of the four    *)
(* operations, the HTTP call settles, the operation's promise settles.      *)

\* an operation runs up to `await fetch(url)`
ApiInvoke(op) ==
    /\ apiPhase # "awaiting"
    /\ apiCalls < MaxCalls
    /\ apiOp' = op
    /\ apiPhase' = "awaiting"
    /\ apiResp' = NoResp
    /\ apiResult' = NoResult
    /\ apiCalls' = apiCalls + 1
    /\ apiHttp' = apiHttp + 1
    /\ UNCHANGED <<exploreVars, fmtVars, homeVars, detailVars>>

\* the HTTP call settles and the operation runs to its end
ApiSettle(resp) ==
    /\ apiPhase = "awaiting"
    /\ apiResp' = resp
    /\ apiResult' = OpResult(apiOp, resp)
    /\ apiPhase' = "settled"
    /\ UNCHANGED <<apiOp, apiCalls, apiHttp, exploreVars, fmtVars, homeVars, detailVars>>

InitFetch ==
    ApiIdle /\ ExploreUnmounted /\ FormatIdle /\ HomeUnmounted /\ DetailUnmounted

NextFetch ==
    \/ \E op \in FetchOps : ApiInvoke(op)
    \/ \E resp \in Responses : ApiSettle(resp)

SpecFetch == InitFetch /\ [][NextFetch]_vars

-----------------------------------------------------------------------------
(* The formatting helpers on their own: a render calls a helper on a value *)
(* of the record it shows.                                                  *)

\* the numbers handed to the helpers: absent and NaN, zero, fractions of
\* either sign, and both sides of each threshold
Numbers ==
    { JsUndefined, JsNaN, JsDec(0, 0),
      JsDec(-1, -3), JsDec(4, -3), JsDec(125, -3), JsDec(1005, -3),
      JsDec(55, -1), JsDec(-2, 0), JsDec(-1500, 0),
      JsDec(99999, -2), JsDec(999995, -3), JsDec(1, 3), JsDec(1500, 0),
      JsDec(999999, 0), JsDec(1, 6), JsDec(15, 5),
      JsDec(999999999, 0), JsDec(1, 9), JsDec(25, 8), JsDec(2000000000, 6) }

\* how long ago the timestamps handed to getTimeAgo lie, in ms
ElapsedMs ==
    { -1, 0, 999, 45000, 45500, 59999, 60000, 90000, 3599999, 3600000,
      7200000, 86340000, 86399999, 86400000, 172800000 }

AddressChars ==
    <<"A", "B", "C", "D", "E", "F", "G", "H", "I", "J", "K", "L", "M", "N", "O", "P">>

\* the address of n characters "ABC..."
AddressOfLen(n) == [i \in 1..n |-> AddressChars[((i - 1) % Len(AddressChars)) + 1]]

\* the addresses handed to formatAddress: every length up to the longest, and
\* an absent one
Addresses == { JsStr(AddressOfLen(n)) : n \in 0..MaxAddressLen } \cup {JsUndefined}

\* new Date(timestamp).getTime(): NaN for a timestamp that does not parse
Timestamps == { JsNum(Now0 - e) : e \in ElapsedMs } \cup {JsNaN}

FormatNumberCall ==
    /\ fmtOp' = "formatNumber"
    /\ fmtOut' \in FormatNumber(fmtNum)
    /\ UNCHANGED <<fmtNum, fmtTime, fmtAddr, apiVars, exploreVars, homeVars, detailVars>>

FormatCurrencyMillionsCall ==
    /\ fmtOp' = "formatCurrencyMillions"
    /\ fmtOut' \in FormatCurrencyMillions(fmtNum)
    /\ UNCHANGED <<fmtNum, fmtTime, fmtAddr, apiVars, exploreVars, homeVars, detailVars>>

FormatPercentageCall ==
    /\ fmtOp' = "formatPercentage"
    /\ fmtOut' \in FormatPercentage(fmtNum)
    /\ UNCHANGED <<fmtNum, fmtTime, fmtAddr, apiVars, exploreVars, homeVars, detailVars>>

GetTimeAgoCall ==
    /\ fmtOp' = "getTimeAgo"
    /\ fmtOut' = GetTimeAgo(fmtTime, now)
    /\ UNCHANGED <<fmtNum, fmtTime, fmtAddr, apiVars, exploreVars, homeVars, detailVars>>

FormatAddressCall ==
    /\ fmtOp' = "formatAddress"
    /\ fmtOut' = FormatAddress(fmtAddr)
    /\ UNCHANGED <<fmtNum, fmtTime, fmtAddr, apiVars, exploreVars, homeVars, detailVars>>

InitFormat ==
    /\ ApiIdle
    /\ ExploreUnmounted
    /\ HomeUnmounted
    /\ DetailUnmounted
    /\ fmtOp = "none"
    /\ fmtNum \in Numbers
    /\ fmtTime \in Timestamps
    /\ fmtAddr \in Addresses
    /\ fmtOut = <<>>

NextFormat ==
    \/ FormatNumberCall
    \/ FormatCurrencyMillionsCall
    \/ FormatPercentageCall
    \/ GetTimeAgoCall
    \/ FormatAddressCall

SpecFormat == InitFormat /\ [][NextFormat]_vars

-----------------------------------------------------------------------------
(* Helpers of the properties.                                               *)

IdsOf(list) == [i \in 1..Len(list) |-> list[i].id]
Elements(list) == { list[i] : i \in 1..Len(list) }
Occurrences(list, t) == Cardinality({ i \in 1..Len(list) : list[i] = t })

\* one list is a reordering of the other: nothing dropped, added or duplicated
SameTokens(a, b) == \A t \in Catalogue : Occurrences(a, t) = Occurrences(b, t)

\* what the search stage lets through
SearchKeeps(token, q) == q = <<>> \/ SearchMatches(token, q)

ZeroIfUndefined(x) == IF x = JsUndefined THEN JsNum(0) ELSE x

\* a token with each absent numeric field read by the pipeline set to 0
ZeroDefaulted(token) ==
    [token EXCEPT !.volume24h = ZeroIfUndefined(@),
                  !.mcap = ZeroIfUndefined(@),
                  !.usdPrice = ZeroIfUndefined(@),
                  !.holderCount = ZeroIfUndefined(@),
                  !.stats24h = Stats(ZeroIfUndefined(NumTraders(token)))]

ZeroDefaultedList(list) == [i \in 1..Len(list) |-> ZeroDefaulted(list[i])]

-----------------------------------------------------------------------------
(* Properties                                                               *)

\* C1 (as claimed): with category `trending`, no token whose market cap is 0
\* is in the displayed list, whatever its 24h volume.
C1_ZeroMcapNeverTrending ==
    selectedFilter = "trending" =>
        \A i \in 1..Len(filteredAndSortedTokens) :
            filteredAndSortedTokens[i].mcap # JsNum(0)

\* C2 (as claimed): on a parsed 2xx body fetchBelieveTokens returns
\* {tokens: pools} for a body with an array under `pools`, and the body's own
\* token array for a body already shaped {tokens: [...]}.
C2_BothEnvelopesNormalized ==
    (apiPhase = "settled" /\ apiOp = "fetchBelieveTokens" /\ Parsed(apiResp)) =>
        LET body == apiResp.body IN
        /\ IsArray(OptPools(body)) =>
               apiResult = Returned(JObject(JUndefined, body.pools))
        /\ (body.t = "object" /\ body.pools = JUndefined /\ IsArray(body.tokens)) =>
               (~apiResult.threw /\ apiResult.value.tokens = body.tokens)

\* a parsed body that is neither {pools: [...]} nor {tokens: [...]}
UnrecognizedShape(body) ==
    /\ ~IsArray(OptPools(body))
    /\ ~(body.t = "object" /\ IsArray(body.tokens))

\* C3 (as claimed): on a parsed 2xx body of unrecognized shape
\* fetchBelieveTokens returns {tokens: []} and does not throw.
C3_UnrecognizedShapeGivesEmptyList ==
    (/\ apiPhase = "settled"
     /\ apiOp = "fetchBelieveTokens"
     /\ Parsed(apiResp)
     /\ UnrecognizedShape(apiResp.body)) =>
        apiResult = Returned(JObject(JUndefined, JArray(<<>>)))

\* C4: whichever of the four fetch operations was invoked, when the network
\* call rejects or the status is outside 200..299 the operation throws and
\* yields no value.
C4_FailurePropagates ==
    (apiPhase = "settled" /\ (apiResp.kind = "reject" \/ ~ResponseOk(apiResp))) =>
        (apiResult.threw /\ apiResult.value = JUndefined)

C4_Witness ==
    /\ apiPhase = "settled"
    /\ apiOp = "fetchTokenChart"
    /\ apiResp.kind = "response"
    /\ apiResp.status = 300
    /\ apiResp.body.t = "object"
    /\ apiResult.threw

\* C5 (as claimed): once a load of the explore screen has failed, an alert
\* has been shown.
C5_FailedLoadShowsAlert == lastOutcome = "failed" => alerts > 0

C7_UndefinedTreatedAsZero ==
    IdsOf(filteredAndSortedTokens) \in
        { IdsOf(r.out) :
            r \in FilteredAndSortedTokens(ZeroDefaultedList(tokens), searchQuery,
                                          selectedFilter, selectedSort, computedAt) }

\* C8: whatever the user did before, the displayed list holds exactly the
\* tokens of the full held list that pass the current query and the current
\* category (as of the last recomputation), each once.
C8_NoCumulativeNarrowing ==
    /\ Elements(filteredAndSortedTokens) =
           { t \in Elements(tokens) :
               SearchKeeps(t, searchQuery)
               /\ CategoryKeeps(t, selectedFilter, computedAt) }
    /\ \A t \in Elements(filteredAndSortedTokens) :
           Occurrences(filteredAndSortedTokens, t) = Occurrences(tokens, t)

C8_Witness ==
    /\ searchQuery # <<>>
    /\ selectedFilter = "hot"
    /\ Len(tokens) = 2
    /\ Len(filteredAndSortedTokens) = 1
    /\ \E t \in Elements(tokens) :
           CategoryKeeps(t, selectedFilter, computedAt) /\ ~SearchKeeps(t, searchQuery)

\* C9: no recomputation changes the held token list, and the displayed list
\* is never the held array itself.
C9_InputNeverMutated == [][tokens' = tokens /\ ~aliased']_vars

C9_Witness ==
    /\ ~aliased
    /\ selectedSort = "volume"
    /\ Len(tokens) = 2
    /\ Len(filteredAndSortedTokens) = 2
    /\ filteredAndSortedTokens # tokens

\* C10: with category `all` the displayed list is a reordering of the tokens
\* the search stage lets through (with an empty query: of the held list).
C10_AllCategoryIsNoOp ==
    selectedFilter = "all" =>
        SameTokens(filteredAndSortedTokens,
                   SelectSeq(tokens, LAMBDA t : SearchKeeps(t, searchQuery)))

C10_Witness ==
    /\ selectedFilter = "all"
    /\ searchQuery = <<"B", "e">>
    /\ selectedSort = "newest"
    /\ Len(tokens) = 2
    /\ Len(filteredAndSortedTokens) = 1

\* the metric a sort key orders by
Metric(s, token) ==
    CASE s = "volume" -> token.volume24h
      [] s = "price" -> token.usdPrice
      [] s = "traders" -> NumTraders(token)
      [] s = "holders" -> token.holderCount
      [] s = "newest" -> JsNum(token.createdAt)
      [] OTHER -> token.mcap

\* a >= b, an absent metric counting as 0
MetricGe(a, b) == ZeroIfUndefined(a).v >= ZeroIfUndefined(b).v

\* C11 (as claimed): whatever the sort key, the displayed list is in
\* descending order of the key's metric: each token's metric is >= that of the
\* token displayed after it.
C11_SortedDescending ==
    \A i \in 1..(Len(filteredAndSortedTokens) - 1) :
        MetricGe(Metric(selectedSort, filteredAndSortedTokens[i]),
                 Metric(selectedSort, filteredAndSortedTokens[i + 1]))

\* C12: of the held tokens that pass the category, exactly those are displayed
\* whose lower-cased symbol or lower-cased name contains the lower-cased
\* query; with an empty query all of them are displayed.
C12_SearchIsCaseInsensitiveSubstring ==
    \A t \in Elements(tokens) :
        CategoryKeeps(t, selectedFilter, computedAt) =>
            (t \in Elements(filteredAndSortedTokens) <=>
                \/ searchQuery = <<>>
                \/ Includes(ToLowerCase(t.symbol), ToLowerCase(searchQuery))
                \/ Includes(ToLowerCase(t.name), ToLowerCase(searchQuery)))

C12_Witness ==
    /\ searchQuery = <<"B", "e">>
    /\ selectedFilter = "all"
    /\ \E t \in Elements(filteredAndSortedTokens) :
           /\ t.name = <<"B", "E">>
           /\ ~Includes(ToLowerCase(t.symbol), <<"b", "e">>)
    /\ \E t \in Elements(tokens) : t \notin Elements(filteredAndSortedTokens)

\* C13: with category `hot`, of the held tokens that pass the search exactly
\* those are displayed that have 24h stats with a trader count >= 100.
C13_HotIsAtLeast100Traders ==
    selectedFilter = "hot" =>
        \A t \in Elements(tokens) :
            SearchKeeps(t, searchQuery) =>
                (t \in Elements(filteredAndSortedTokens) <=>
                    /\ t.stats24h.present
                    /\ IsNum(t.stats24h.numTraders)
                    /\ t.stats24h.numTraders.v >= 100)

C13_Witness ==
    /\ selectedFilter = "hot"
    /\ \E t \in Elements(filteredAndSortedTokens) : NumTraders(t) = JsNum(100)
    /\ \E t \in Elements(tokens) :
           ~t.stats24h.present /\ t \notin Elements(filteredAndSortedTokens)

\* C14: with category `graduated`, of the held tokens that pass the search
\* exactly those are displayed whose market cap is a number above 69000.
C14_GraduatedIsAbove69000 ==
    selectedFilter = "graduated" =>
        \A t \in Elements(tokens) :
            SearchKeeps(t, searchQuery) =>
                (t \in Elements(filteredAndSortedTokens) <=>
                    (IsNum(t.mcap) /\ t.mcap.v > 69000))

C14_Witness ==
    /\ selectedFilter = "graduated"
    /\ \E t \in Elements(filteredAndSortedTokens) : t.mcap = JsNum(69001)
    /\ \E t \in Elements(tokens) :
           t.mcap = JsNum(69000) /\ t \notin Elements(filteredAndSortedTokens)

\* C15: with category `new`, of the held tokens that pass the search exactly
\* those are displayed whose age at the clock of the last recomputation is
\* below 24 hours.
C15_NewIsYoungerThan24h ==
    selectedFilter = "new" =>
        \A t \in Elements(tokens) :
            SearchKeeps(t, searchQuery) =>
                (t \in Elements(filteredAndSortedTokens) <=>
                    computedAt - t.createdAt < 24 * 60 * 60 * 1000)

C15_Witness ==
    /\ selectedFilter = "new"
    /\ computedAt = Now0 + HourMs
    /\ \E t \in Elements(filteredAndSortedTokens) : computedAt - t.createdAt < DayMs
    /\ \E t \in Elements(tokens) :
           /\ computedAt - t.createdAt = DayMs
           /\ t \notin Elements(filteredAndSortedTokens)

\* C16: on a 2xx response whose body is an object, fetchTokenDetail returns
\* the first record of `pools` when `pools` is a non-empty list, and null
\* when it is an empty list or absent.
C16_DetailIsFirstPoolOrNull ==
    (/\ apiPhase = "settled"
     /\ apiOp = "fetchTokenDetail"
     /\ Parsed(apiResp)
     /\ apiResp.body.t = "object"
     /\ (IsArray(apiResp.body.pools) \/ ~Truthy(apiResp.body.pools))) =>
        LET pools == apiResp.body.pools IN
        IF IsArray(pools) /\ Len(pools.items) > 0
        THEN apiResult = Returned(JToken(pools.items[1]))
        ELSE apiResult = Returned(JNull)

C16_Witness ==
    /\ apiPhase = "settled"
    /\ apiOp = "fetchTokenDetail"
    /\ Parsed(apiResp)
    /\ IsArray(OptPools(apiResp.body))
    /\ Len(apiResp.body.pools.items) = 2
    /\ apiResult = Returned(JToken(apiResp.body.pools.items[1]))

\* "<unit> ago"
Ago(unit) == <<unit, " ", "a", "g", "o">>

\* C17: with d the whole seconds elapsed since the timestamp, getTimeAgo
\* returns "<d>s ago" when d < 60, else "<floor(d/60)>m ago" when
\* floor(d/60) < 60, else "<floor(d/3600)>h ago" when floor(d/3600) < 24, else
\* "<floor(d/86400)>d ago": 45s -> "45s ago", 90s -> "1m ago",
\* 7200s -> "2h ago", 23h59m -> "23h ago".
C17_TimeAgoTruncates ==
    (fmtOp = "getTimeAgo" /\ IsNum(fmtTime)) =>
        LET ms == now - fmtTime.v
            d == ms \div 1000
        IN /\ fmtOut =
                  IF d < 60 THEN IntToString(d) \o Ago("s")
                  ELSE IF d \div 60 < 60 THEN IntToString(d \div 60) \o Ago("m")
                  ELSE IF d \div 3600 < 24 THEN IntToString(d \div 3600) \o Ago("h")
                  ELSE IntToString(d \div 86400) \o Ago("d")
           /\ ms = 45 * 1000 => fmtOut = <<"4", "5", "s", " ", "a", "g", "o">>
           /\ ms = 90 * 1000 => fmtOut = <<"1", "m", " ", "a", "g", "o">>
           /\ ms = 7200 * 1000 => fmtOut = <<"2", "h", " ", "a", "g", "o">>
           /\ ms = (23 * 60 + 59) * 60 * 1000 =>
                  fmtOut = <<"2", "3", "h", " ", "a", "g", "o">>

C17_Witness ==
    /\ fmtOp = "getTimeAgo"
    /\ IsNum(fmtTime)
    /\ now - fmtTime.v = (23 * 60 + 59) * 60 * 1000
    /\ fmtOut = <<"2", "3", "h", " ", "a", "g", "o">>

\* C18: for a number x, formatPercentage's text starts with "+" when x >= 0
\* and with "-" when x < 0 (also when x rounds to 0.00), and its isPositive
\* flag is x >= 0: 5.5 -> {"+5.50%", true}, -2 -> {"-2.00%", false}.
C18_PercentageSign ==
    (fmtOp = "formatPercentage" /\ fmtNum.k = "dec") =>
        /\ fmtOut.text[1] = (IF fmtNum.m >= 0 THEN "+" ELSE "-")
        /\ fmtOut.isPositive = (fmtNum.m >= 0)
        /\ fmtNum = JsDec(55, -1) =>
               fmtOut = [text |-> <<"+", "5", ".", "5", "0", "%">>, isPositive |-> TRUE]
        /\ fmtNum = JsDec(-2, 0) =>
               fmtOut = [text |-> <<"-", "2", ".", "0", "0", "%">>, isPositive |-> FALSE]

C18_Witness ==
    /\ fmtOp = "formatPercentage"
    /\ fmtNum = JsDec(-1, -3)
    /\ fmtOut = [text |-> <<"-", "0", ".", "0", "0", "%">>, isPositive |-> FALSE]

IsDigit(c) == \E i \in 1..10 : Digits[i] = c

\* digits (behind an optional "-"), a point, and exactly two digits
TwoDecimals(t) ==
    /\ Len(t) >= 4
    /\ t[Len(t) - 2] = "."
    /\ IsDigit(t[Len(t) - 1])
    /\ IsDigit(t[Len(t)])
    /\ \A i \in 1..(Len(t) - 3) : IsDigit(t[i]) \/ (i = 1 /\ t[i] = "-" /\ Len(t) >= 5)

\* C19: for a number n, formatNumber prints n / 1e9 and "B" when n >= 1e9,
\* n / 1e6 and "M" when 1e6 <= n < 1e9, n / 1e3 and "K" when 1e3 <= n < 1e6,
\* and n alone when n < 1e3, each at exactly two decimal places.
C19_NumberSuffixByThreshold ==
    (fmtOp = "formatNumber" /\ fmtNum.k = "dec") =>
        LET p == IF JsGePow10(fmtNum, 9) THEN 9
                 ELSE IF JsGePow10(fmtNum, 6) THEN 6
                 ELSE IF JsGePow10(fmtNum, 3) THEN 3
                 ELSE 0
            suffix == CASE p = 9 -> <<"B">> [] p = 6 -> <<"M">>
                        [] p = 3 -> <<"K">> [] OTHER -> <<>>
            printed == SubSeq(fmtOut, 1, Len(fmtOut) - Len(suffix))
        IN /\ fmtOut = printed \o suffix
           /\ printed \in ToFixed(JsDec(fmtNum.m, fmtNum.e - p))
           /\ TwoDecimals(printed)

C19_Witness ==
    /\ fmtOp = "formatNumber"
    /\ fmtNum = JsDec(1, 6)
    /\ fmtOut = <<"1", ".", "0", "0", "M">>

\* C20: formatCurrencyMillions returns "$0.00" for 0, NaN and undefined, and
\* for every other number "$" followed by what formatNumber prints for it:
\* 1500000 -> "$1.50M", 2500000000 -> "$2.50B".
C20_CurrencyIsDollarFormatNumber ==
    fmtOp = "formatCurrencyMillions" =>
        /\ (fmtNum \in {JsUndefined, JsNaN, JsDec(0, 0)}) =>
               fmtOut = <<"$", "0", ".", "0", "0">>
        /\ (fmtNum \notin {JsUndefined, JsNaN, JsDec(0, 0)}) =>
               fmtOut \in { <<"$">> \o t : t \in FormatNumber(fmtNum) }
        /\ fmtNum = JsDec(15, 5) => fmtOut = <<"$", "1", ".", "5", "0", "M">>
        /\ fmtNum = JsDec(25, 8) => fmtOut = <<"$", "2", ".", "5", "0", "B">>

C20_Witness ==
    /\ fmtOp = "formatCurrencyMillions"
    /\ fmtNum = JsDec(25, 8)
    /\ fmtOut = <<"$", "2", ".", "5", "0", "B">>

\* C21: formatAddress returns an address of at most 10 characters (the
\* empty one included) unchanged, and for a longer one its first 4
\* characters, "..." and its last 4 characters, 11 characters in all:
\* "ABCDEFGHIJKL" -> "ABCD...IJKL", "ABC" -> "ABC".
C21_AddressShortenedAboveTen ==
    (fmtOp = "formatAddress" /\ fmtAddr # JsUndefined) =>
        LET address == fmtAddr.s
            n == Len(address)
        IN /\ n <= 10 => fmtOut = address
           /\ n > 10 =>
                  /\ Len(fmtOut) = 11
                  /\ \A i \in 1..4 : fmtOut[i] = address[i]
                  /\ \A i \in 5..7 : fmtOut[i] = "."
                  /\ \A i \in 8..11 : fmtOut[i] = address[n - 11 + i]
           /\ address = <<"A", "B", "C", "D", "E", "F", "G", "H", "I", "J", "K", "L">> =>
                  fmtOut = <<"A", "B", "C", "D", ".", ".", ".", "I", "J", "K", "L">>
           /\ address = <<"A", "B", "C">> => fmtOut = <<"A", "B", "C">>

C21_Witness ==
    /\ fmtOp = "formatAddress"
    /\ fmtAddr = JsStr(<<"A", "B", "C", "D", "E", "F", "G", "H", "I", "J", "K", "L">>)
    /\ fmtOut = <<"A", "B", "C", "D", ".", ".", ".", "I", "J", "K", "L">>

\* the loadChartData calls awaiting their response
IntervalRequests == { l \in detailInflight : l.kind = "loadChartData" }

\* C22 (as claimed): nothing keeps a second interval request from being
\* started while one is in flight: whenever the interval buttons are
\* rendered, a press on them is accepted.
C22_IntervalPressNeverPrevented == IntervalButtonsShown => IntervalButtonsEnabled

\* C22 (amended): at most one interval request is in flight at a time, and
\* chartLoading, which disables the interval buttons, is true exactly while
\* one is.
C22_OneIntervalRequestAtATime ==
    /\ Cardinality(IntervalRequests) <= 1
    /\ chartLoading <=> IntervalRequests # {}

\* an interval request is in flight, the buttons are rendered and another
\* call could still be followed
C22_Witness ==
    /\ IntervalButtonsShown
    /\ chartLoading
    /\ Cardinality(IntervalRequests) = 1
    /\ detailRequests < MaxDetailCalls

\* C23: a token-list request leaves the requests in flight only by settling,
\* one at a time, never because another one was issued; and the request that
\* settles with success puts its own timeframe's response into the held list,
\* whichever timeframe is selected.
C23_LastResponseWins ==
    [][inflight' # inflight =>
          \/ inflight \subseteq inflight'
          \/ \E r \in inflight :
                /\ inflight' = inflight \ {r}
                /\ lastOutcome' = "ok" => tokens' \in {ServerPools(r.timeFrame), <<>>}]_vars

C23_Witness ==
    /\ inflight = {}
    /\ lastOutcome = "ok"
    /\ tokens # <<>>
    /\ tokens # ServerPools(selectedTimeFrame)
    /\ \E tf \in TimeFrames \ {selectedTimeFrame} : tokens = ServerPools(tf)

\* C24: on the home screen stats and tokens are set only together, in the step
\* in which the second of a loadData call's two requests resolves with the
\* first already resolved; a step that handles a failed request changes
\* neither, whatever the other request brought, and so does a response that
\* arrives after its call has failed.
C24_StatsAndTokensTogether ==
    [][/\ statsSetBy' = tokensSetBy'
       /\ homeAlerts' # homeAlerts =>
              /\ stats' = stats
              /\ homeTokens' = homeTokens
       /\ (stats' # stats \/ homeTokens' # homeTokens \/ statsSetBy' # statsSetBy) =>
              \E l \in homeLoads :
                  /\ ~l.done
                  /\ l.id = statsSetBy'
                  /\ (l.stats = NoResult) # (l.tokens = NoResult)
                  /\ ~l.stats.threw
                  /\ ~l.tokens.threw
                  /\ homeLoads' = homeLoads \ {l}
                  /\ homeAlerts' = homeAlerts]_vars

\* the first load was applied, the refresh after it failed and has settled
C24_Witness ==
    /\ statsSetBy = 1
    /\ tokensSetBy = 1
    /\ stats # JNull
    /\ homeTokens # <<>>
    /\ homeRequests = 2
    /\ homeAlerts = 1
    /\ homeLoads = {}

\* C25 (as claimed): when no request of the detail screen is in flight, a
\* chart that is displayed is the response for the highlighted
\* selectedInterval.
C25_ChartMatchesSelectedInterval ==
    (detailInflight = {} /\ IntervalButtonsShown) =>
        chartData = JChart(ServerCandles(selectedInterval))

C27_LoadingWhileInFlight == inflight # {} => loading

\* C28: if every request settles, then on each screen that is shown a flag
\* that is true becomes false again: loading and refreshing of the explore
\* screen, loading and refreshing of the home screen, and loading, refreshing
\* and chartLoading of the token detail screen.
C28_FlagsEventuallyFalse ==
    /\ (httpRequests > 0 /\ loading) ~> ~loading
    /\ refreshing ~> ~refreshing
    /\ (homeRequests > 0 /\ homeLoading) ~> ~homeLoading
    /\ homeRefreshing ~> ~homeRefreshing
    /\ (detailRequests > 0 /\ detailLoading) ~> ~detailLoading
    /\ detailRefreshing ~> ~detailRefreshing
    /\ chartLoading ~> ~chartLoading

\* the detail screen's first load has failed and its spinner is gone
C28_Witness ==
    /\ detailAlerts = <<LoadTokenDataAlert>>
    /\ detailRequests = 1
    /\ detailInflight = {}
    /\ ~detailLoading
    /\ ~detailRefreshing
    /\ ~chartLoading

\* C29 (as claimed): with category `hot`, a held token that passes the search
\* is displayed if and only if its list item shows the hot badge.
C29_HotFilterAgreesWithBadge ==
    selectedFilter = "hot" =>
        \A t \in Elements(tokens) :
            SearchKeeps(t, searchQuery) =>
                (t \in Elements(filteredAndSortedTokens) <=> IsHotToken(t))

\* C30 (as claimed): with category `new`, every displayed token is younger
\* than 24 hours at the current clock.
C30_DisplayedNewAtEveryMoment ==
    selectedFilter = "new" =>
        \A i \in 1..Len(filteredAndSortedTokens) :
            now - filteredAndSortedTokens[i].createdAt < DayMs

\* C30 (amended): with category `new`, every displayed token was younger than
\* 24 hours at the clock of the last recomputation, which is not later than
\* the current clock.
C30_DisplayedNewWhenComputed ==
    selectedFilter = "new" =>
        /\ computedAt <= now
        /\ \A i \in 1..Len(filteredAndSortedTokens) :
               computedAt - filteredAndSortedTokens[i].createdAt < DayMs

C30_Witness ==
    /\ selectedFilter = "new"
    /\ computedAt < now
    /\ \E t \in Elements(filteredAndSortedTokens) : now - t.createdAt >= DayMs

=============================================================================
